---- MODULE Spec2Model ----
(***************************************************************************)
(* Model of duchess' macro/src/reflect.rs: the Reflector cache around the  *)
(* external `javap` tool, the method/constructor resolver                  *)
(* (Reflector::reflect_method) and the declaration-tree builder            *)
(* (DuchessDeclaration::to_root_map).                                      *)
(*                                                                         *)
(* Values.  A DotId is a sequence of identifiers whose last element is the *)
(* class.  A Span is an opaque source location.  An Arc<ClassInfo> is the  *)
(* record [id, ci]: `ci` is the ClassInfo value and `id` names the         *)
(* allocation, that is the event that executed Arc::new (the n-th javap    *)
(* run for a name, or the literal declaration at a span of the current     *)
(* to_root_map call), so that two Arcs held at the same time are the same  *)
(* shared instance iff their ids are equal.  A SpanError is                *)
(* [span, message]; the message is kept structured ([kind, ...]) instead   *)
(* of formatted.  A call ends as [kind |-> "ok", value], [kind |-> "err",  *)
(* error] or [kind |-> "panic", message].                                  *)
(***************************************************************************)
EXTENDS Naturals, Sequences, FiniteSets, TLC

VARIABLES
    classes,      \* Reflector.classes: DotId -> Arc<ClassInfo>
    classpath,    \* whether the CLASSPATH environment variable is set
    javapCalls,   \* instrumentation: DotId -> number of javap runs for it
    handed,       \* instrumentation: DotId -> ids of the Arcs returned for it
    ret           \* the last call: operation, arguments, tool output, result

vars == <<classes, classpath, javapCalls, handed, ret>>

-----------------------------------------------------------------------------
(* Bounds *)

MaxJavap == 2   \* javap runs modelled in one run of the program
MaxItems == 4   \* package and class declarations in one declaration set

-----------------------------------------------------------------------------
(* Names and source locations *)

\* a Span is <<kind, line, column>>
CallSite == <<"call_site", 0, 0>>
SelectorSpans == {<<"selector", 1, 0>>, <<"selector", 2, 0>>}
DeclSpan(p, i) == <<"class", p, i>>      \* i-th class of the p-th package
IdentSpan(p, k) == <<"package", p, k>>   \* k-th segment of the p-th package name

AFoo == <<"a", "Foo">>
ABar == <<"a", "Bar">>
ABFoo == <<"a", "b", "Foo">>
Other == <<"x", "Other">>

\* the qualified names a caller asks the Reflector for
QualifiedNames == {AFoo, ABar, ABFoo}

\* DotId::split and DotId::new (class_info.rs)
DotIdSplit(d) == <<SubSeq(d, 1, Len(d) - 1), d[Len(d)]>>
DotIdNew(package, class) == Append(package, class)

-----------------------------------------------------------------------------
(* The compiled classes javap can see.  A constructor is its argument      *)
(* list [argc]; a method is [name, argc, is_static]; a field is its name.   *)

Ctor(k) == [argc |-> k]
Mth(n, k, s) == [name |-> n, argc |-> k, is_static |-> s]

ClassFile(name) ==
    CASE name = AFoo  -> [constructors |-> <<Ctor(0)>>,
                          methods |-> <<Mth("f", 0, FALSE), Mth("f", 1, TRUE)>>,
                          fields |-> <<"x">>]
      [] name = ABar  -> [constructors |-> <<>>,
                          methods |-> <<Mth("f", 0, FALSE)>>,
                          fields |-> <<>>]
      [] name = ABFoo -> [constructors |-> <<Ctor(0), Ctor(1), Ctor(2)>>,
                          methods |-> <<Mth("f", 0, FALSE), Mth("g", 0, FALSE),
                                        Mth("f", 1, FALSE), Mth("f", 1, TRUE)>>,
                          fields |-> <<"x", "y">>]
      [] OTHER        -> [constructors |-> <<Ctor(0), Ctor(2)>>,
                          methods |-> <<Mth("g", 1, TRUE)>>,
                          fields |-> <<>>]

\* the text of a listing: the class header line and the member lines
Listing(name) ==
    [header |-> name,
     constructors |-> ClassFile(name).constructors,
     methods |-> ClassFile(name).methods,
     fields |-> ClassFile(name).fields]

\* a text that is no listing
Plain(msg) ==
    [header |-> <<msg>>, constructors |-> <<>>, methods |-> <<>>, fields |-> <<>>]
Garbage == Plain("garbage")

\* byte strings captured from the tool: valid UTF-8 carrying a text, or not
Utf8(text) == [utf8 |-> TRUE, text |-> text]
NotUtf8 == [utf8 |-> FALSE, text |-> Plain("bytes")]

\* String::from_utf8
FromUtf8(bytes) ==
    IF bytes.utf8 THEN [ok |-> TRUE, val |-> bytes.text]
    ELSE [ok |-> FALSE, val |-> Plain("utf8 error")]

\* command.output() of `javap -cp CLASSPATH -public class_name`: the tool
\* does not start, or it runs to an exit status with captured stdout/stderr
Javap(class_name) ==
    {[started |-> FALSE, success |-> FALSE, stdout |-> Utf8(Plain("")), stderr |-> Utf8(Plain(""))]}
    \cup
    {[started |-> TRUE, success |-> FALSE, stdout |-> so, stderr |-> se] :
        so \in {Utf8(Listing(class_name)), NotUtf8},
        se \in {Utf8(Plain("diag")), NotUtf8}}
    \cup
    {[started |-> TRUE, success |-> TRUE, stdout |-> so, stderr |-> Utf8(Plain("warn"))] :
        so \in {Utf8(Listing(class_name)), Utf8(Listing(Other)),
                Utf8(Garbage), NotUtf8}}

-----------------------------------------------------------------------------
(* Results *)

Ok(v) == [kind |-> "ok", value |-> v]
Err(span, message) == [kind |-> "err", error |-> [span |-> span, message |-> message]]
Panic(message) == [kind |-> "panic", message |-> message]

\* ClassInfo::parse (class_info.rs): the class named by the header line with
\* the members of the listing, located at `span`
ClassInfoParse(s, span) ==
    IF s = Garbage
    THEN Err(span, [kind |-> "ParseError"])
    ELSE Ok([name |-> s.header, span |-> span,
             constructors |-> s.constructors, methods |-> s.methods,
             fields |-> s.fields])

-----------------------------------------------------------------------------
(* Reflector.  The operators work on the record R = [classes, javapCalls,  *)
(* handed, ran, env] so that reflect_method and to_root_map can call       *)
(* reflect; ran lists the class names javap was run for during the current *)
(* call and env counts its reads of CLASSPATH.                             *)

Reflector ==
    [classes |-> classes, javapCalls |-> javapCalls, handed |-> handed,
     ran |-> <<>>, env |-> 0]

NewArc(id, ci) == [id |-> id, ci |-> ci]

RECURSIVE SumOver(_, _)
SumOver(f, S) ==
    IF S = {} THEN 0
    ELSE LET x == CHOOSE y \in S : TRUE IN f[x] + SumOver(f, S \ {x})

\* the javap runs so far
TotalJavap(R) == SumOver(R.javapCalls, DOMAIN R.javapCalls)

\* bookkeeping of one read of the CLASSPATH environment variable
EnvRead(R) == [R EXCEPT !.env = @ + 1]

\* bookkeeping of one javap run for class_name
Spawned(R, class_name) ==
    [R EXCEPT !.javapCalls[class_name] = @ + 1, !.ran = Append(@, class_name)]

\* bookkeeping of an Arc returned to a caller that asked for class_name
Returned(R, class_name, arc) ==
    [R EXCEPT !.handed[class_name] = @ \cup {arc.id}]

\* variant of ReflectOutput that decodes stdout before it looks at the status
ReflectOutputDecodeFirst(R, class_name, span, output) ==
    IF ~output.started
    THEN [R |-> R, res |-> Err(span, [kind |-> "ToolInvocationError"])]
    ELSE IF ~FromUtf8(output.stdout).ok
    THEN [R |-> R, res |-> Err(span, [kind |-> "OutputDecodingError"])]
    ELSE [R |-> R,
          res |-> Err(span, [kind |-> "ToolFailureError",
                             text |-> IF FromUtf8(output.stderr).ok
                                      THEN FromUtf8(output.stderr).val
                                      ELSE Plain("error")])]

\* variant of ReflectOutput that caches the class under the name its listing
\* is headed with
ReflectOutputKeyedByHeader(R, class_name, span, output) ==
    IF ~output.started
    THEN [R |-> R, res |-> Err(span, [kind |-> "ToolInvocationError"])]
    ELSE IF ~output.success
    THEN [R |-> R,
          res |-> Err(span, [kind |-> "ToolFailureError",
                             text |-> IF FromUtf8(output.stderr).ok
                                      THEN FromUtf8(output.stderr).val
                                      ELSE Plain("error")])]
    ELSE IF ~FromUtf8(output.stdout).ok
    THEN [R |-> R, res |-> Err(span, [kind |-> "OutputDecodingError"])]
    ELSE LET parsed == ClassInfoParse(FromUtf8(output.stdout).val, span) IN
         IF parsed.kind = "err"
         THEN [R |-> R, res |-> parsed]
         ELSE LET ci == [parsed.value EXCEPT !.span = CallSite]
                  arc == NewArc([origin |-> "javap", name |-> class_name,
                                 nth |-> R.javapCalls[class_name], span |-> CallSite], ci)
                  R1 == [R EXCEPT !.classes =
                            IF ci.name \in DOMAIN R.classes
                            THEN R.classes
                            ELSE R.classes @@ (ci.name :> arc)]
              IN [R |-> Returned(R1, class_name, R1.classes[ci.name]),
                  res |-> Ok(R1.classes[ci.name])]

\* variant of ReflectOutput that leaves the parsed ClassInfo at the span
\* reflect was called with
ReflectOutputKeepSpan(R, class_name, span, output) ==
    IF ~output.started
    THEN [R |-> R, res |-> Err(span, [kind |-> "ToolInvocationError"])]
    ELSE IF ~output.success
    THEN [R |-> R,
          res |-> Err(span, [kind |-> "ToolFailureError",
                             text |-> IF FromUtf8(output.stderr).ok
                                      THEN FromUtf8(output.stderr).val
                                      ELSE Plain("error")])]
    ELSE IF ~FromUtf8(output.stdout).ok
    THEN [R |-> R, res |-> Err(span, [kind |-> "OutputDecodingError"])]
    ELSE LET parsed == ClassInfoParse(FromUtf8(output.stdout).val, span) IN
         IF parsed.kind = "err"
         THEN [R |-> R, res |-> parsed]
         ELSE LET ci == parsed.value
                  arc == NewArc([origin |-> "javap", name |-> class_name,
                                 nth |-> R.javapCalls[class_name], span |-> CallSite], ci)
                  R1 == [R EXCEPT !.classes =
                            IF class_name \in DOMAIN R.classes
                            THEN R.classes
                            ELSE R.classes @@ (class_name :> arc)]
              IN [R |-> Returned(R1, class_name, R1.classes[class_name]),
                  res |-> Ok(R1.classes[class_name])]

\* variant of ReflectOutput that caches an empty class when javap exits
\* with a failure
ReflectOutputCacheFailure(R, class_name, span, output) ==
    IF ~output.started
    THEN [R |-> R, res |-> Err(span, [kind |-> "ToolInvocationError"])]
    ELSE IF ~output.success
    THEN [R |-> [R EXCEPT !.classes =
                    @ @@ (class_name :>
                            NewArc([origin |-> "javap", name |-> class_name,
                                    nth |-> R.javapCalls[class_name], span |-> CallSite],
                                   [name |-> class_name, span |-> CallSite,
                                    constructors |-> <<>>, methods |-> <<>>,
                                    fields |-> <<>>]))],
          res |-> Err(span, [kind |-> "ToolFailureError",
                             text |-> IF FromUtf8(output.stderr).ok
                                      THEN FromUtf8(output.stderr).val
                                      ELSE Plain("error")])]
    ELSE IF ~FromUtf8(output.stdout).ok
    THEN [R |-> R, res |-> Err(span, [kind |-> "OutputDecodingError"])]
    ELSE LET parsed == ClassInfoParse(FromUtf8(output.stdout).val, span) IN
         IF parsed.kind = "err"
         THEN [R |-> R, res |-> parsed]
         ELSE LET ci == [parsed.value EXCEPT !.span = CallSite]
                  arc == NewArc([origin |-> "javap", name |-> class_name,
                                 nth |-> R.javapCalls[class_name], span |-> CallSite], ci)
                  R1 == [R EXCEPT !.classes =
                            IF class_name \in DOMAIN R.classes
                            THEN R.classes
                            ELSE R.classes @@ (class_name :> arc)]
              IN [R |-> Returned(R1, class_name, R1.classes[class_name]),
                  res |-> Ok(R1.classes[class_name])]

\* Reflector::reflect after command.output() produced `output`
ReflectOutput(R, class_name, span, output) ==
    IF ~output.started
    THEN [R |-> R, res |-> Err(span, [kind |-> "ToolInvocationError"])]
    ELSE IF ~output.success
    THEN [R |-> R,
          res |-> Err(span, [kind |-> "ToolFailureError",
                             text |-> IF FromUtf8(output.stderr).ok
                                      THEN FromUtf8(output.stderr).val
                                      ELSE Plain("error")])]
    ELSE IF ~FromUtf8(output.stdout).ok
    THEN [R |-> R, res |-> Err(span, [kind |-> "OutputDecodingError"])]
    ELSE LET parsed == ClassInfoParse(FromUtf8(output.stdout).val, span) IN
         IF parsed.kind = "err"
         THEN [R |-> R, res |-> parsed]
         ELSE LET ci == [parsed.value EXCEPT !.span = CallSite]
                  arc == NewArc([origin |-> "javap", name |-> class_name,
                                 nth |-> R.javapCalls[class_name], span |-> CallSite], ci)
                  R1 == [R EXCEPT !.classes =
                            IF class_name \in DOMAIN R.classes
                            THEN R.classes
                            ELSE R.classes @@ (class_name :> arc)]
              IN [R |-> Returned(R1, class_name, R1.classes[class_name]),
                  res |-> Ok(R1.classes[class_name])]

\* Reflector::reflect past the cache lookup: CLASSPATH is read, javap is
\* run and its output handled
ReflectMiss(R, class_name, span, cp) ==
    IF ~cp
    THEN {[R |-> EnvRead(R), res |-> Panic([kind |-> "ConfigurationError"]),
           out |-> <<>>]}
    ELSE IF TotalJavap(R) >= MaxJavap
    THEN {}
    ELSE {[R |-> ReflectOutput(Spawned(EnvRead(R), class_name), class_name, span, o).R,
           res |-> ReflectOutput(Spawned(EnvRead(R), class_name), class_name, span, o).res,
           out |-> <<o>>] : o \in Javap(class_name)}

\* variant of Reflect that never looks into the cache
ReflectAlwaysMiss(R, class_name, span, cp) ==
    ReflectMiss(R, class_name, span, cp)

\* variant of Reflect that hands out a copy of the cached ClassInfo on a hit
ReflectCopyOnHit(R, class_name, span, cp) ==
    IF class_name \in DOMAIN R.classes
    THEN LET copy == NewArc([origin |-> "copy", name |-> class_name,
                             nth |-> 0, span |-> span],
                            R.classes[class_name].ci)
         IN {[R |-> Returned(R, class_name, copy), res |-> Ok(copy), out |-> <<>>]}
    ELSE ReflectMiss(R, class_name, span, cp)

\* variant of Reflect that reads CLASSPATH before it looks into the cache
ReflectEnvFirst(R, class_name, span, cp) ==
    IF ~cp
    THEN {[R |-> EnvRead(R), res |-> Panic([kind |-> "ConfigurationError"]),
           out |-> <<>>]}
    ELSE IF class_name \in DOMAIN R.classes
    THEN {[R |-> Returned(EnvRead(R), class_name, R.classes[class_name]),
           res |-> Ok(R.classes[class_name]), out |-> <<>>]}
    ELSE ReflectMiss(R, class_name, span, cp)

\* variant of Reflect that takes the entry out of the cache on a hit
ReflectTakeOnHit(R, class_name, span, cp) ==
    IF class_name \in DOMAIN R.classes
    THEN {[R |-> [Returned(R, class_name, R.classes[class_name]) EXCEPT
                    !.classes = [K \in DOMAIN R.classes \ {class_name} |->
                                    R.classes[K]]],
           res |-> Ok(R.classes[class_name]), out |-> <<>>]}
    ELSE ReflectMiss(R, class_name, span, cp)

\* Reflector::reflect: every way the call can end, as [R, res, out]
\* (out: the tool output captured by the call, at most one)
Reflect(R, class_name, span, cp) ==
    IF class_name \in DOMAIN R.classes
    THEN {[R |-> Returned(R, class_name, R.classes[class_name]),
           res |-> Ok(R.classes[class_name]), out |-> <<>>]}
    ELSE ReflectMiss(R, class_name, span, cp)

\* class_info.methods.iter().filter(|m| m.name == mn.text).collect()
RECURSIVE MethodsNamed(_, _)
MethodsNamed(methods, mn) ==
    IF methods = <<>> THEN <<>>
    ELSE IF Head(methods).name = mn
    THEN <<Head(methods)>> \o MethodsNamed(Tail(methods), mn)
    ELSE MethodsNamed(Tail(methods), mn)

\* variant of ResolveConstructor that takes the first of several constructors
ResolveConstructorFirst(cn, class_info) ==
    IF Len(class_info.ci.constructors) >= 1
    THEN Ok([variant |-> "Constructor", class |-> class_info,
             member |-> class_info.ci.constructors[1]])
    ELSE Err(cn.span, [kind |-> "NoConstructorFound"])

\* reflect_method, MethodSelector::ClassName arm, once the class is reflected
ResolveConstructor(cn, class_info) ==
    LET n == Len(class_info.ci.constructors) IN
    IF n = 1
    THEN Ok([variant |-> "Constructor", class |-> class_info,
             member |-> class_info.ci.constructors[1]])
    ELSE IF n = 0
    THEN Err(cn.span, [kind |-> "NoConstructorFound"])
    ELSE Err(cn.span, [kind |-> "AmbiguousConstructor", count |-> n])

\* variant of ResolveMethod that breaks ties by taking the first match
ResolveMethodFirst(cn, mn, class_info) ==
    LET methods == MethodsNamed(class_info.ci.methods, mn) IN
    IF Len(methods) >= 1
    THEN Ok([variant |-> "Method", class |-> class_info, member |-> methods[1]])
    ELSE Err(cn.span, [kind |-> "NoMethodFound", name |-> mn])

\* reflect_method, MethodSelector::MethodName arm, once the class is reflected
ResolveMethod(cn, mn, class_info) ==
    LET methods == MethodsNamed(class_info.ci.methods, mn)
        n == Len(methods)
    IN IF n = 1
       THEN Ok([variant |-> "Method", class |-> class_info, member |-> methods[1]])
       ELSE IF n = 0
       THEN Err(cn.span, [kind |-> "NoMethodFound", name |-> mn])
       ELSE Err(cn.span, [kind |-> "AmbiguousMethod", name |-> mn, count |-> n])

\* the cache without the entry of class_name
Evicted(R, class_name) ==
    [R EXCEPT !.classes = [K \in DOMAIN R.classes \ {class_name} |-> R.classes[K]]]

\* variant of ReflectMethod that drops the class from the cache when the
\* resolution fails
ReflectMethodEvicting(R, method_selector, cp) ==
    IF method_selector.variant = "ClassName"
    THEN {IF x.res.kind # "ok" THEN x
          ELSE LET r == ResolveConstructor(method_selector.cn, x.res.value) IN
               [R |-> IF r.kind = "ok" THEN x.R
                      ELSE Evicted(x.R, method_selector.cn.dot_id),
                res |-> r, out |-> x.out] :
            x \in Reflect(R, method_selector.cn.dot_id, method_selector.cn.span, cp)}
    ELSE IF method_selector.variant = "MethodName"
    THEN {IF x.res.kind # "ok" THEN x
          ELSE LET r == ResolveMethod(method_selector.cn, method_selector.mn,
                                      x.res.value) IN
               [R |-> IF r.kind = "ok" THEN x.R
                      ELSE Evicted(x.R, method_selector.cn.dot_id),
                res |-> r, out |-> x.out] :
            x \in Reflect(R, method_selector.cn.dot_id, method_selector.cn.span, cp)}
    ELSE {[R |-> R, res |-> Panic([kind |-> "not yet implemented"]), out |-> <<>>]}

\* Reflector::reflect_method: every way the call can end, as [R, res, out]
ReflectMethod(R, method_selector, cp) ==
    IF method_selector.variant = "ClassName"
    THEN {[x EXCEPT !.res = IF x.res.kind = "ok"
                             THEN ResolveConstructor(method_selector.cn, x.res.value)
                             ELSE x.res] :
            x \in Reflect(R, method_selector.cn.dot_id, method_selector.cn.span, cp)}
    ELSE IF method_selector.variant = "MethodName"
    THEN {[x EXCEPT !.res = IF x.res.kind = "ok"
                             THEN ResolveMethod(method_selector.cn, method_selector.mn,
                                                x.res.value)
                             ELSE x.res] :
            x \in Reflect(R, method_selector.cn.dot_id, method_selector.cn.span, cp)}
    ELSE {[R |-> R, res |-> Panic([kind |-> "not yet implemented"]), out |-> <<>>]}

-----------------------------------------------------------------------------
(* Declaration-tree builder *)

\* variant of MakeAbsoluteDotId that accepts a written package that is only
\* a prefix of the enclosing package name
MakeAbsoluteDotIdPrefix(self, span, class_dot_id) ==
    LET package_ids == [k \in 1..Len(self.package_name.ids) |->
                            self.package_name.ids[k].text]
        package == DotIdSplit(class_dot_id)[1]
        class == DotIdSplit(class_dot_id)[2]
    IN IF package = <<>>
       THEN Ok(DotIdNew(package_ids, class))
       ELSE IF \/ Len(package) > Len(package_ids)
               \/ SubSeq(package_ids, 1, Len(package)) # package
       THEN Err(span, [kind |-> "PackageMismatch", class |-> class_dot_id,
                       package |-> package_ids])
       ELSE Ok(class_dot_id)

\* JavaPackage::make_absolute_dot_id
MakeAbsoluteDotId(self, span, class_dot_id) ==
    LET package_ids == [k \in 1..Len(self.package_name.ids) |->
                            self.package_name.ids[k].text]
        package == DotIdSplit(class_dot_id)[1]
        class == DotIdSplit(class_dot_id)[2]
    IN IF package = <<>>
       THEN Ok(DotIdNew(package_ids, class))
       ELSE IF package_ids # package
       THEN Err(span, [kind |-> "PackageMismatch", class |-> class_dot_id,
                       package |-> package_ids])
       ELSE Ok(class_dot_id)

\* what the declaration log records for one processed class declaration
Processed(span, dot_id, res, ran) ==
    [span |-> span, dot_id |-> dot_id, res |-> res, ran |-> ran]

\* variant of Register that leaves the flat map alone
RegisterInListOnly(package, flat, dot_id, info) ==
    [package |-> [package EXCEPT !.classes = Append(@, dot_id)],
     classes |-> flat]

\* package.classes.push(dot_id.clone()); classes.insert(dot_id, info)
Register(package, flat, dot_id, info) ==
    [package |-> [package EXCEPT !.classes = Append(@, dot_id)],
     classes |-> [n \in DOMAIN flat \cup {dot_id} |->
                    IF n = dot_id THEN info ELSE flat[n]]]

\* variant of SpecifiedInfo that keeps the name the user wrote
SpecifiedInfoVerbatim(c, dot_id) ==
    NewArc([origin |-> "literal", name |-> dot_id, nth |-> 0, span |-> c.span], c)

\* Arc::new(ClassInfo { name: dot_id, ..c.clone() })
SpecifiedInfo(c, dot_id) ==
    NewArc([origin |-> "literal", name |-> dot_id, nth |-> 0, span |-> c.span],
           [c EXCEPT !.name = dot_id])

\* JavaPackage::insert_classes_into_root_map from the i-th class on: every
\* way the loop can end, as [R, res, log, package, classes]
RECURSIVE InsertClassesIntoRootMap(_, _, _, _, _, _, _)
InsertClassesIntoRootMap(self, i, R, package, flat, log, cp) ==
    IF i > Len(self.classes)
    THEN {[R |-> R, res |-> Ok(<<>>), log |-> log,
           package |-> package, classes |-> flat]}
    ELSE
    LET decl == self.classes[i]
        c == decl.c
        abs == MakeAbsoluteDotId(self, c.span, c.name)
        dot_id == abs.value
        Registered(info) == Register(package, flat, dot_id, info)
    IN IF abs.kind = "err"
       THEN {[R |-> R, res |-> abs,
              log |-> Append(log, Processed(c.span, c.name, abs, 0)),
              package |-> package, classes |-> flat]}
       ELSE IF decl.kind = "Reflected"
       THEN UNION {
              LET log1 == Append(log, Processed(c.span, dot_id, x.res, x.ran)) IN
              IF x.res.kind = "ok"
              THEN InsertClassesIntoRootMap(self, i + 1, x.R,
                       Registered(x.res.value).package,
                       Registered(x.res.value).classes, log1, cp)
              ELSE {[R |-> x.R, res |-> x.res, log |-> log1,
                     package |-> package, classes |-> flat]} :
              x \in {[R |-> y.R, res |-> y.res, ran |-> Len(y.R.ran) - Len(R.ran)] :
                        y \in Reflect(R, dot_id, c.span, cp)}}
       ELSE LET info == SpecifiedInfo(c, dot_id)
            IN InsertClassesIntoRootMap(self, i + 1, R,
                   Registered(info).package, Registered(info).classes,
                   Append(log, Processed(c.span, dot_id, Ok(info), 0)), cp)

\* variant of Entry that always makes a new node
EntryInserted(map, id, default) == default

\* A BTreeMap<Id, SpannedPackageInfo> is the set of its nodes, each found by
\* its name.  map.entry(id).or_insert_with(default): the node under id
Entry(map, id, default) ==
    IF \E node \in map : node.name = id
    THEN CHOOSE node \in map : node.name = id
    ELSE default

\* JavaPackage::to_spanned_packages: every way the call can end, as
\* [R, res, log, map, classes]
RECURSIVE ToSpannedPackages(_, _, _, _, _, _, _)
ToSpannedPackages(self, name, R, map, flat, log, cp) ==
    LET first == Head(name)
        rest == Tail(name)
        package_info == [name |-> first.text, span |-> first.span,
                         subpackages |-> {}, classes |-> <<>>]
        first_id == first.text
        parent == Entry(map, first_id, package_info)
        others == map \ {parent}
    IN IF rest = <<>>
       THEN {[R |-> o.R, res |-> o.res, log |-> o.log,
              map |-> others \cup {o.package},
              classes |-> o.classes] :
               o \in InsertClassesIntoRootMap(self, 1, R, parent, flat, log, cp)}
       ELSE {[o EXCEPT !.map = others \cup {[parent EXCEPT !.subpackages = o.map]}] :
               o \in ToSpannedPackages(self, rest, R, parent.subpackages,
                                       flat, log, cp)}

\* variant of ToRootMapFrom that goes on with the next package after a
\* package failed
RECURSIVE ToRootMapFromKeepGoing(_, _, _, _, _, _, _)
ToRootMapFromKeepGoing(self, p, R, subpackages, flat, log, cp) ==
    IF p > Len(self.packages)
    THEN {[R |-> R, log |-> log,
           res |-> Ok([subpackages |-> subpackages, classes |-> flat])]}
    ELSE UNION {
           ToRootMapFromKeepGoing(self, p + 1, o.R, o.map, o.classes, o.log, cp) :
           o \in ToSpannedPackages(self.packages[p], self.packages[p].package_name.ids,
                                   R, subpackages, flat, log, cp)}

\* the loop of DuchessDeclaration::to_root_map from the p-th package on
RECURSIVE ToRootMapFrom(_, _, _, _, _, _, _)
ToRootMapFrom(self, p, R, subpackages, flat, log, cp) ==
    IF p > Len(self.packages)
    THEN {[R |-> R, log |-> log,
           res |-> Ok([subpackages |-> subpackages, classes |-> flat])]}
    ELSE UNION {
           IF o.res.kind = "ok"
           THEN ToRootMapFrom(self, p + 1, o.R, o.map, o.classes, o.log, cp)
           ELSE {[R |-> o.R, log |-> o.log, res |-> o.res]} :
           o \in ToSpannedPackages(self.packages[p], self.packages[p].package_name.ids,
                                   R, subpackages, flat, log, cp)}

\* DuchessDeclaration::to_root_map: every way the call can end, as [R, res, log]
ToRootMap(self, R, cp) == ToRootMapFrom(self, 1, R, {}, <<>>, <<>>, cp)

-----------------------------------------------------------------------------
(* Inputs *)

PackageNames == {<<"a">>, <<"a", "b">>}

\* class names as the user writes them in a package declaration
DeclaredNames ==
    {<<"Foo">>, <<"a", "Foo">>, <<"a", "Bar">>, <<"b", "Foo">>, <<"a", "b", "Foo">>}

\* the body of a specified (literal) class
LiteralConstructors == <<Ctor(0)>>
LiteralMethods == <<Mth("g", 0, FALSE)>>
LiteralFields == <<"z">>

ClassDeclAt(kind, name, p, i) ==
    IF kind = "Reflected"
    THEN [kind |-> kind, c |-> [name |-> name, span |-> DeclSpan(p, i)]]
    ELSE [kind |-> kind, c |-> [name |-> name, span |-> DeclSpan(p, i),
                                constructors |-> LiteralConstructors,
                                methods |-> LiteralMethods,
                                fields |-> LiteralFields]]

PackageNameAt(ids, p) ==
    [ids |-> [k \in 1..Len(ids) |-> [text |-> ids[k], span |-> IdentSpan(p, k)]]]

\* a declaration set is written as a list of items: a package item opens a
\* package declaration, a class item declares a class in the open package
Items ==
    [tag : {"package"}, kind : {"package"}, name : PackageNames]
    \cup [tag : {"class"}, kind : {"Reflected", "Specified"}, name : DeclaredNames]

ItemLists(n) ==
    UNION {{items \in [1..k -> Items] : k > 0 => items[1].tag = "package"} : k \in 0..n}

\* the packages of an item list, each with its classes
RECURSIVE Grouped(_, _)
Grouped(items, packages) ==
    IF items = <<>> THEN packages
    ELSE IF Head(items).tag = "package"
    THEN Grouped(Tail(items),
                 Append(packages, [name |-> Head(items).name, classes |-> <<>>]))
    ELSE Grouped(Tail(items),
                 [packages EXCEPT ![Len(packages)].classes = Append(@, Head(items))])

\* the DuchessDeclaration of an item list: every identifier and every class
\* declaration gets its own span
Declaration(items) ==
    LET raw == Grouped(items, <<>>) IN
    [packages |-> [p \in 1..Len(raw) |->
        [package_name |-> PackageNameAt(raw[p].name, p),
         classes |-> [i \in 1..Len(raw[p].classes) |->
                        ClassDeclAt(raw[p].classes[i].kind, raw[p].classes[i].name, p, i)]]]]

\* the declaration sets of at most MaxItems declarations
Declarations == {Declaration(items) : items \in ItemLists(MaxItems)}

\* the declaration sets of one package with one class
SingleClassDeclarations ==
    {Declaration(<<package, class>>) :
        package \in {item \in Items : item.tag = "package"},
        class \in {item \in Items : item.tag = "class"}}

MethodNames == {"f", "g"}

ClassNameAsts == [dot_id : QualifiedNames, span : SelectorSpans]

MethodSelectors ==
    {[variant |-> "ClassName", cn |-> cn, mn |-> ""] : cn \in ClassNameAsts}
    \cup {[variant |-> "MethodName", cn |-> cn, mn |-> mn] :
            cn \in ClassNameAsts, mn \in MethodNames}
    \cup {[variant |-> "ClassInfo", cn |-> [dot_id |-> <<>>, span |-> CallSite], mn |-> ""]}

-----------------------------------------------------------------------------

\* the record of a call: the operation and its argument, the environment
\* and the cache it started from, the tool output it captured (out), the
\* names it ran javap for (ran), its reads of CLASSPATH (env), the class
\* declarations it processed (log) and its result
Call(op, arg, x, out, log) ==
    [op |-> op, arg |-> arg, cp |-> classpath, before |-> classes,
     out |-> out, ran |-> x.R.ran, env |-> x.R.env, log |-> log, res |-> x.res]

Init ==
    /\ classes = <<>>
    /\ classpath \in BOOLEAN
    /\ javapCalls = [n \in QualifiedNames |-> 0]
    /\ handed = [n \in QualifiedNames |-> {}]
    /\ ret = Call("init", <<>>, [R |-> Reflector, res |-> Ok(<<>>)], <<>>, <<>>)

\* a call that ended as x = [R, res] takes effect
Commit(x) ==
    /\ classes' = x.R.classes
    /\ javapCalls' = x.R.javapCalls
    /\ handed' = x.R.handed

\* a call of Reflector::reflect
ReflectCall ==
    \E class_name \in QualifiedNames, span \in SelectorSpans :
        \E x \in Reflect(Reflector, class_name, span, classpath) :
            /\ Commit(x)
            /\ ret' = Call("reflect", [class_name |-> class_name, span |-> span],
                            x, x.out, <<>>)
            /\ UNCHANGED classpath

\* a call of Reflector::reflect_method
ReflectMethodCall ==
    \E method_selector \in MethodSelectors :
        \E x \in ReflectMethod(Reflector, method_selector, classpath) :
            /\ Commit(x)
            /\ ret' = Call("reflect_method", method_selector, x, x.out, <<>>)
            /\ UNCHANGED classpath

\* a call of DuchessDeclaration::to_root_map with the declaration set d
ToRootMapOn(d) ==
    \E x \in ToRootMap(d, Reflector, classpath) :
        /\ Commit(x)
        /\ ret' = Call("to_root_map", d, x, <<>>, x.log)
        /\ UNCHANGED classpath

\* to_root_map between other calls on the same Reflector
ToRootMapCall == \E d \in SingleClassDeclarations : ToRootMapOn(d)

\* to_root_map as the first call on a new Reflector
FirstToRootMapCall ==
    /\ ret.op = "init"
    /\ \E d \in Declarations : ToRootMapOn(d)

\* the environment sets or unsets CLASSPATH between two calls
SetEnv ==
    /\ classpath' = ~classpath
    /\ UNCHANGED <<classes, javapCalls, handed, ret>>

Next == ReflectCall \/ ReflectMethodCall \/ ToRootMapCall \/ SetEnv

Spec == Init /\ [][Next]_vars

\* one declaration set built on a new Reflector
NextTree == FirstToRootMapCall

SpecTree == Init /\ [][NextTree]_vars

-----------------------------------------------------------------------------
(* Properties of the Reflector and the resolver *)

\* the class name a reflect or reflect_method call asks for
Requested ==
    IF ret.op = "reflect" THEN ret.arg.class_name ELSE ret.arg.cn.dot_id

\* the span a reflect or reflect_method call passes along
RequestSpan ==
    IF ret.op = "reflect" THEN ret.arg.span ELSE ret.arg.cn.span

\* the last call was a reflect, or a reflect_method with a class name, that
\* found its class missing from the cache
CacheMiss ==
    /\ \/ ret.op = "reflect"
       \/ ret.op = "reflect_method" /\ ret.arg.variant # "ClassInfo"
    /\ Requested \notin DOMAIN ret.before

\* C1 as stated: javap runs at most once for every qualified name, and all
\* successful requests for one name return the same Arc.
C1_AtMostOncePerName ==
    \A n \in QualifiedNames :
        javapCalls[n] <= 1 /\ Cardinality(handed[n]) <= 1

\* C1 amended: once a name is cached, javap is never run for it again; one
\* call runs javap at most once for a name; all successful requests for one
\* name return the same Arc.  (A failed request is not cached, and a later
\* request for the name runs javap again.)
C1_AtMostOnceOnceCached ==
    [][\A n \in QualifiedNames :
          /\ n \in DOMAIN classes => javapCalls'[n] = javapCalls[n]
          /\ javapCalls'[n] <= javapCalls[n] + 1
          /\ Cardinality(handed'[n]) <= 1]_vars

\* a cache hit on a name whose first javap run failed and whose second
\* succeeded
C1_Witness ==
    /\ ret.op = "reflect" /\ ret.res.kind = "ok" /\ ret.ran = <<>>
    /\ javapCalls[ret.arg.class_name] = 2
    /\ handed[ret.arg.class_name] = {ret.res.value.id}

\* C2 as stated: a reflect call that misses the cache while CLASSPATH is
\* unset returns a ConfigurationError as an error value, runs no tool and
\* leaves the cache unchanged.
C2_ConfigurationErrorReturned ==
    (ret.op = "reflect" /\ CacheMiss /\ ~ret.cp) =>
        /\ ret.res.kind = "err"
        /\ ret.res.error.message.kind = "ConfigurationError"
        /\ ret.ran = <<>>
        /\ classes = ret.before

\* the outcome the precedence of C3 assigns to a tool output; `carried` is
\* the text a ToolFailureError carries
Precedence(output, span, carried) ==
    IF ~output.started THEN Err(span, [kind |-> "ToolInvocationError"])
    ELSE IF ~output.success
    THEN Err(span, [kind |-> "ToolFailureError", text |-> carried])
    ELSE IF ~output.stdout.utf8 THEN Err(span, [kind |-> "OutputDecodingError"])
    ELSE IF output.stdout.text = Garbage THEN Err(span, [kind |-> "ParseError"])
    ELSE Ok(<<>>)

\* a cache miss with CLASSPATH set ran javap once and ended as the
\* precedence says, the text carried by a ToolFailureError being carried(o)
MissFollows(carried(_)) ==
    (CacheMiss /\ ret.cp) =>
        /\ Len(ret.out) = 1 /\ ret.ran = <<Requested>>
        /\ LET expected == Precedence(ret.out[1], RequestSpan, carried(ret.out[1])) IN
           IF expected.kind = "err"
           THEN ret.res = expected
           ELSE Requested \in DOMAIN classes
                /\ (ret.op = "reflect" => ret.res = Ok(classes[Requested]))

\* to_root_map returns the error of the class declaration it stopped at
ErrorPropagated ==
    (ret.op = "to_root_map" /\ ret.res.kind # "ok") =>
        /\ ret.log # <<>>
        /\ ret.res = ret.log[Len(ret.log)].res
        /\ \A j \in 1..Len(ret.log) : ret.log[j].ran <= 1

StderrBytes(output) == output.stderr.text
StderrTextOrError(output) ==
    IF output.stderr.utf8 THEN output.stderr.text ELSE Plain("error")

\* C3 as stated: on a cache miss with CLASSPATH set one call runs javap
\* exactly once and maps the outcome in the order spawn failure, non-zero
\* exit (carrying the captured stderr), undecodable stdout, parse failure,
\* success; reflect_method and to_root_map return the error unchanged.
C3_PrecedenceCarryingStderr ==
    MissFollows(StderrBytes) /\ ErrorPropagated

\* C3 amended: as C3, but the ToolFailureError carries the captured stderr
\* only when it is valid UTF-8, and the text "error" otherwise.
C3_Precedence ==
    MissFollows(StderrTextOrError) /\ ErrorPropagated

\* javap exited non-zero with a stdout that is not UTF-8 and the call
\* reported the ToolFailureError
C3_Witness ==
    /\ ret.op = "reflect_method" /\ CacheMiss /\ ret.cp
    /\ Len(ret.out) = 1
    /\ ret.out[1].started /\ ~ret.out[1].success /\ ~ret.out[1].stdout.utf8
    /\ ret.res.kind = "err"
    /\ ret.res.error.message.kind = "ToolFailureError"

\* the last call was a reflect_method whose class reflected successfully
Resolved(variant) ==
    /\ ret.op = "reflect_method" /\ ret.arg.variant = variant
    /\ ret.arg.cn.dot_id \in DOMAIN classes

\* C4: a class-only selector whose class reflects yields the Constructor of
\* the class and its single constructor if the class has exactly one
\* constructor, NoConstructorFound if it has none, AmbiguousConstructor with
\* the exact count if it has two or more, whatever the methods are.
C4_ConstructorResolution ==
    Resolved("ClassName") =>
        LET class_info == classes[ret.arg.cn.dot_id]
            n == Len(class_info.ci.constructors)
        IN /\ n = 1 => ret.res = Ok([variant |-> "Constructor", class |-> class_info,
                                      member |-> class_info.ci.constructors[1]])
           /\ n = 0 => ret.res = Err(ret.arg.cn.span, [kind |-> "NoConstructorFound"])
           /\ n >= 2 => ret.res = Err(ret.arg.cn.span,
                                      [kind |-> "AmbiguousConstructor", count |-> n])

\* a class with three constructors was reported ambiguous
C4_Witness ==
    /\ Resolved("ClassName")
    /\ Len(classes[ret.arg.cn.dot_id].ci.constructors) = 3
    /\ ret.res.kind = "err"
    /\ ret.res.error.message.kind = "AmbiguousConstructor"

\* the positions of the methods of class_info that are named mn
Matches(class_info, mn) ==
    {i \in 1..Len(class_info.ci.methods) : class_info.ci.methods[i].name = mn}

\* C5: a class+method selector whose class reflects yields the Method of the
\* class and its only method of that name if exactly one method has the
\* name, NoMethodFound(name) if none has, AmbiguousMethod(name, k) if k >= 2
\* have, whatever their arity or static flag.
C5_MethodResolution ==
    Resolved("MethodName") =>
        LET class_info == classes[ret.arg.cn.dot_id]
            mn == ret.arg.mn
            k == Cardinality(Matches(class_info, mn))
        IN /\ k = 1 => \E i \in Matches(class_info, mn) :
                          ret.res = Ok([variant |-> "Method", class |-> class_info,
                                        member |-> class_info.ci.methods[i]])
           /\ k = 0 => ret.res = Err(ret.arg.cn.span,
                                     [kind |-> "NoMethodFound", name |-> mn])
           /\ k >= 2 => ret.res = Err(ret.arg.cn.span,
                                      [kind |-> "AmbiguousMethod", name |-> mn,
                                       count |-> k])

\* two methods of one name that differ in arity and static flag were
\* reported ambiguous
C5_Witness ==
    /\ Resolved("MethodName")
    /\ LET class_info == classes[ret.arg.cn.dot_id] IN
       \E i, j \in Matches(class_info, ret.arg.mn) :
           /\ class_info.ci.methods[i].argc # class_info.ci.methods[j].argc
           /\ class_info.ci.methods[i].is_static # class_info.ci.methods[j].is_static
    /\ ret.res.kind = "err"
    /\ ret.res.error.message.kind = "AmbiguousMethod"
    /\ ret.res.error.message.count = 2

-----------------------------------------------------------------------------
(* Properties of the declaration-tree builder.  They read the last call    *)
(* when it is a to_root_map: its declaration set ret.arg, its log of       *)
(* processed class declarations and its result.                            *)

IsToRootMap == ret.op = "to_root_map"
Built == IsToRootMap /\ ret.res.kind = "ok"

\* the name of the p-th package declaration, as identifiers
PackageIds(p) ==
    [k \in 1..Len(ret.arg.packages[p].package_name.ids) |->
        ret.arg.packages[p].package_name.ids[k].text]

\* the class declared at a span, and the package declaration it stands in
PackageAt(span) == span[2]
WrittenAt(span) == ret.arg.packages[span[2]].classes[span[3]].c.name

\* the package segments and the class of a written or qualified name
PackagePart(dot_id) == SubSeq(dot_id, 1, Len(dot_id) - 1)
ClassPart(dot_id) == dot_id[Len(dot_id)]

Range(seq) == {seq[i] : i \in 1..Len(seq)}
Count(seq, x) == Cardinality({i \in 1..Len(seq) : seq[i] = x})

\* the spans of the class declarations from the p-th package on, in order
RECURSIVE SpansFrom(_)
SpansFrom(p) ==
    IF p > Len(ret.arg.packages) THEN <<>>
    ELSE [i \in 1..Len(ret.arg.packages[p].classes) |->
            ret.arg.packages[p].classes[i].c.span] \o SpansFrom(p + 1)

\* the nodes a path of package segments leads to in a subpackage map
RECURSIVE NodesAt(_, _)
NodesAt(map, path) ==
    LET heads == {node \in map : node.name = Head(path)} IN
    IF Len(path) = 1 THEN heads
    ELSE UNION {NodesAt(node.subpackages, Tail(path)) : node \in heads}

\* all nodes below a subpackage map, each with the path that leads to it
RECURSIVE NodesBelow(_, _)
NodesBelow(map, prefix) ==
    UNION {{[path |-> Append(prefix, node.name), node |-> node]}
           \cup NodesBelow(node.subpackages, Append(prefix, node.name)) :
           node \in map}

PackageMismatchAt(e) ==
    e.res.kind = "err" /\ e.res.error.message.kind = "PackageMismatch"

\* C6: a class written without package segments in a declaration of package
\* P is qualified as P.Class; written with package segments Q it keeps its
\* name if Q = P and otherwise fails the build with a PackageMismatch at the
\* declaration's span, before javap is run for it.
C6_Qualification ==
    IsToRootMap =>
        \A j \in 1..Len(ret.log) :
            LET e == ret.log[j]
                P == PackageIds(PackageAt(e.span))
                written == WrittenAt(e.span)
                Q == PackagePart(written)
            IN /\ Q = <<>> =>
                    /\ ~PackageMismatchAt(e)
                    /\ e.dot_id = P \o <<ClassPart(written)>>
               /\ Q = P => ~PackageMismatchAt(e) /\ e.dot_id = written
               /\ (Q # <<>> /\ Q # P) =>
                    /\ PackageMismatchAt(e)
                    /\ e.res.error.span = e.span
                    /\ e.ran = 0 /\ j = Len(ret.log) /\ ret.res = e.res
                    /\ Len(ret.ran) = Cardinality({i \in 1..j : ret.log[i].ran = 1})
               /\ (Built /\ ~PackageMismatchAt(e)) =>
                    /\ e.dot_id \in DOMAIN ret.res.value.classes
                    /\ \E node \in NodesAt(ret.res.value.subpackages, P) :
                          e.dot_id \in Range(node.classes)

\* a class written a.Foo in a declaration of package a.b was refused
C6_Witness ==
    /\ IsToRootMap /\ ret.res.kind = "err"
    /\ ret.res.error.message.kind = "PackageMismatch"
    /\ Len(ret.log) >= 2
    /\ LET e == ret.log[Len(ret.log)] IN
       /\ PackageIds(PackageAt(e.span)) = <<"a", "b">>
       /\ PackagePart(WrittenAt(e.span)) = <<"a">>

\* the qualified name of the class declared at a span when its written
\* package matches
Qualified(span) ==
    IF PackagePart(WrittenAt(span)) = <<>>
    THEN PackageIds(PackageAt(span)) \o <<ClassPart(WrittenAt(span))>>
    ELSE WrittenAt(span)

\* the spans of the class declarations made in declarations of package P
DeclaredIn(P) == {span \in Range(SpansFrom(1)) : PackageIds(PackageAt(span)) = P}

\* C7: when a package name is declared more than once, to_root_map builds
\* one PackageNode for it; the node's class list holds the classes of all
\* declarations of the package and its subpackage map the subpackages of
\* all declarations that pass through it.
C7_PackagesMerged ==
    Built =>
        \A p \in 1..Len(ret.arg.packages) :
            LET P == PackageIds(p)
                below == {q \in 1..Len(ret.arg.packages) :
                            /\ Len(PackageIds(q)) > Len(P)
                            /\ SubSeq(PackageIds(q), 1, Len(P)) = P}
                nodes == NodesAt(ret.res.value.subpackages, P)
            IN /\ Cardinality(nodes) = 1
               /\ \A node \in nodes :
                    /\ Range(node.classes) = {Qualified(span) : span \in DeclaredIn(P)}
                    /\ {sub.name : sub \in node.subpackages} =
                         {PackageIds(q)[Len(P) + 1] : q \in below}

\* package a was declared twice, with class Foo and with class Bar, and
\* its node lists both
C7_Witness ==
    /\ Built
    /\ \E p, q \in 1..Len(ret.arg.packages) :
          /\ p < q
          /\ PackageIds(p) = <<"a">> /\ PackageIds(q) = <<"a">>
          /\ Len(ret.arg.packages[p].classes) = 1
          /\ Len(ret.arg.packages[q].classes) = 1
          /\ Qualified(DeclSpan(p, 1)) # Qualified(DeclSpan(q, 1))
    /\ \E node \in NodesAt(ret.res.value.subpackages, <<"a">>) :
          Range(node.classes) = {AFoo, ABar}

\* the nodes of the tree of the RootMap that was built
AllNodes == NodesBelow(ret.res.value.subpackages, <<>>)

\* how often a qualified name stands in the class list of node np, given how
\* often it stands in the list of the node of its own package
InOwnListOnly(np, X, times) ==
    Count(np.node.classes, X) = IF np.path = PackagePart(X) THEN times ELSE 0

\* the flat map and the class lists hold the same names
SameNames ==
    /\ \A j \in 1..Len(ret.log) : ret.log[j].dot_id \in DOMAIN ret.res.value.classes
    /\ \A X \in DOMAIN ret.res.value.classes :
          \E np \in AllNodes : X \in Range(np.node.classes)
    /\ \A np \in AllNodes : Range(np.node.classes) \subseteq DOMAIN ret.res.value.classes

\* C8 as stated: in a RootMap every resolved class stands exactly once in the
\* class list of the node of its own package, in no other node's list, and
\* is a key of the flat map; every key stands in some class list; also when
\* a class is declared more than once.
C8_RegisteredExactlyOnce ==
    Built =>
        /\ SameNames
        /\ \A X \in DOMAIN ret.res.value.classes :
              \A np \in AllNodes : InOwnListOnly(np, X, 1)

\* C8 amended: every resolved class stands in the class list of the node of
\* its own package once per declaration of the class (exactly once when it
\* is declared once), in no other node's list, and is a key of the flat
\* map; every key stands in some class list.
C8_RegisteredPerDeclaration ==
    Built =>
        /\ SameNames
        /\ \A X \in DOMAIN ret.res.value.classes :
              \A np \in AllNodes :
                  InOwnListOnly(np, X,
                      Cardinality({j \in 1..Len(ret.log) : ret.log[j].dot_id = X}))

\* class a.b.Foo was declared in two declarations of package a.b
C8_Witness ==
    /\ Built
    /\ Len(ret.arg.packages) = 2
    /\ \E np \in AllNodes :
          /\ np.path = <<"a", "b">>
          /\ np.node.classes = <<ABFoo, ABFoo>>
    /\ DOMAIN ret.res.value.classes = {ABFoo}

TriggerSpan ==
    IF IsToRootMap THEN ret.log[Len(ret.log)].span ELSE RequestSpan

\* C10: every failure of reflect, reflect_method and to_root_map (missing
\* configuration, tool not started, non-zero exit, undecodable output, parse
\* failure, package mismatch, no or ambiguous constructor or method) is an
\* error value that carries the span of the class declaration or selector
\* that triggered the lookup.
C10_FailureCarriesSpan ==
    (/\ ret.op \in {"reflect", "reflect_method", "to_root_map"}
     /\ ret.op = "reflect_method" => ret.arg.variant # "ClassInfo"
     /\ ret.res.kind # "ok") =>
        /\ ret.res.kind = "err"
        /\ ret.res.error.span = TriggerSpan

-----------------------------------------------------------------------------
(* Sharing of ClassInfo instances *)

\* the kind (Reflected or Specified) of the class declaration at a span
KindAt(span) == ret.arg.packages[span[2]].classes[span[3]].kind

\* the last processed declaration of a to_root_map call that registered dot_id
LastFor(dot_id) ==
    ret.log[CHOOSE j \in 1..Len(ret.log) :
                /\ ret.log[j].dot_id = dot_id
                /\ \A k \in (j + 1)..Len(ret.log) : ret.log[k].dot_id # dot_id]

\* the last call was a reflect or a reflect_method that returned a value
Answered ==
    /\ \/ ret.op = "reflect"
       \/ ret.op = "reflect_method" /\ ret.arg.variant # "ClassInfo"
    /\ ret.res.kind = "ok"

\* the Arc<ClassInfo> a successful reflect or reflect_method handed out
AnsweredClass ==
    IF ret.op = "reflect" THEN ret.res.value ELSE ret.res.value.class

\* C11 as stated: whenever a RootMap's flat map, the cache or a
\* ReflectedMethod hold a ClassInfo for the same qualified name, they hold
\* the same instance, whether the name came from a reflected declaration, a
\* specified declaration or a selector.
C11_OneInstancePerName ==
    /\ Built => \A X \in DOMAIN ret.res.value.classes \cap DOMAIN classes :
                    ret.res.value.classes[X] = classes[X]
    /\ Answered => AnsweredClass = classes[Requested]

\* C11: the instances obtained by reflection are shared: a flat map entry
\* whose last declaration is a reflected one, and the class of a value
\* returned by reflect or reflect_method, are the instance in the cache; a
\* flat map entry whose last declaration is a specified one is an instance
\* of its own, which the cache never holds.
C11_ReflectedInstancesShared ==
    /\ Built => \A X \in DOMAIN ret.res.value.classes :
                    LET info == ret.res.value.classes[X] IN
                    /\ KindAt(LastFor(X).span) = "Reflected" =>
                            X \in DOMAIN classes /\ info = classes[X]
                    /\ KindAt(LastFor(X).span) = "Specified" =>
                            /\ info.id.origin = "literal"
                            /\ \A K \in DOMAIN classes : classes[K] # info
    /\ Answered => Requested \in DOMAIN classes /\ AnsweredClass = classes[Requested]

\* a built flat map holds a specified class under a name the cache holds too
C11_Witness ==
    /\ Built
    /\ \E X \in DOMAIN ret.res.value.classes \cap DOMAIN classes :
            KindAt(LastFor(X).span) = "Specified"

-----------------------------------------------------------------------------
(* Cache keys *)

\* C12 as stated: every cache entry stored under key K holds a ClassInfo
\* whose qualified name is K, the key being the class name of the header of
\* the listing, whatever javap printed.
C12_KeyIsHeaderName ==
    \A K \in DOMAIN classes : classes[K].ci.name = K

\* C12: a class is cached under the name it was requested by, and the
\* ClassInfo cached under it bears the name of the header of the listing
\* javap printed for that request, which is the key only if javap printed
\* the listing of the requested class.
C12_KeyIsRequestedName ==
    /\ DOMAIN classes \subseteq QualifiedNames
    /\ \A K \in DOMAIN classes : classes[K].id.name = K
    /\ (CacheMiss /\ Answered) => Requested \in DOMAIN classes
    /\ (CacheMiss /\ Requested \in DOMAIN classes) =>
            /\ ret.ran = <<Requested>>
            /\ DOMAIN classes = DOMAIN ret.before \cup {Requested}
            /\ classes[Requested].ci.name = ret.out[1].stdout.text.header

\* a request was answered from a listing headed with another class
C12_Witness ==
    /\ CacheMiss /\ Answered
    /\ ret.out[1].stdout.text.header = Other
    /\ classes[Requested].ci.name = Other

-----------------------------------------------------------------------------
(* Cache hits and the lifetime of cache entries *)

\* the last call was a reflect for a name the cache held already
CacheHit == ret.op = "reflect" /\ ret.arg.class_name \in DOMAIN ret.before

\* C13: a reflect call for a name already in the cache returns the existing
\* entry without reading CLASSPATH and without running javap, so it succeeds
\* whether or not CLASSPATH is set, and it leaves the cache unchanged.
C13_CacheHitNoIO ==
    CacheHit =>
        /\ ret.res = Ok(ret.before[ret.arg.class_name])
        /\ ret.env = 0
        /\ ret.ran = <<>> /\ ret.out = <<>>
        /\ classes = ret.before

\* a cache hit while CLASSPATH is not set
C13_Witness == CacheHit /\ ~ret.cp /\ ret.res.kind = "ok"

\* C14: cache entries are write-once: no step replaces, changes or removes
\* an entry the cache holds, whatever call the step is and however it ends;
\* the set of cached names only grows.
C14_WriteOnce ==
    [][\A X \in DOMAIN classes : X \in DOMAIN classes' /\ classes'[X] = classes[X]]_vars

\* a call that started with a non-empty cache and added an entry to it
C14_Witness ==
    /\ ret.op \in {"reflect", "reflect_method", "to_root_map"}
    /\ DOMAIN ret.before # {}
    /\ DOMAIN classes # DOMAIN ret.before
    /\ \A X \in DOMAIN ret.before : X \in DOMAIN classes /\ classes[X] = ret.before[X]

-----------------------------------------------------------------------------
(* Specified declarations *)

\* the class declaration written at a span
DeclAt(span) == ret.arg.packages[span[2]].classes[span[3]]

\* the declarations the last to_root_map processed were all specified ones
OnlySpecified ==
    /\ IsToRootMap /\ ret.log # <<>>
    /\ \A j \in 1..Len(ret.log) : KindAt(ret.log[j].span) = "Specified"

\* C15: processing a specified class declaration runs no javap, reads no
\* CLASSPATH and leaves the cache as it was; the ClassInfo it registers in
\* the flat map is the written literal in constructors, methods, fields and
\* span, with the name replaced by the absolute name in the enclosing
\* package.
C15_SpecifiedVerbatim ==
    /\ OnlySpecified => ret.ran = <<>> /\ ret.env = 0 /\ classes = ret.before
    /\ IsToRootMap =>
          \A j \in 1..Len(ret.log) :
             LET e == ret.log[j]
                 c == DeclAt(e.span).c
             IN KindAt(e.span) = "Specified" =>
                  /\ e.ran = 0
                  /\ e.res.kind = "ok" =>
                        /\ e.dot_id = PackageIds(PackageAt(e.span)) \o <<ClassPart(c.name)>>
                        /\ e.res.value.ci = [name |-> e.dot_id, span |-> c.span,
                                             constructors |-> c.constructors,
                                             methods |-> c.methods,
                                             fields |-> c.fields]
                        /\ Built /\ LastFor(e.dot_id) = e =>
                              ret.res.value.classes[e.dot_id] = e.res.value

\* a specified class written without its package was registered while
\* CLASSPATH was not set and the cache held a class of the same name
C15_Witness ==
    /\ Built /\ OnlySpecified /\ ~ret.cp
    /\ \E X \in DOMAIN ret.res.value.classes \cap DOMAIN ret.before :
            /\ WrittenAt(LastFor(X).span) # X
            /\ ret.res.value.classes[X].ci.constructors = LiteralConstructors
            /\ ret.res.value.classes[X].ci.fields = LiteralFields

-----------------------------------------------------------------------------
(* Location of cached classes *)

\* the ClassInfo reflect caches for a listing, which no span enters
CachedFrom(listing) == ClassInfoParse(listing, CallSite).value

\* C16: every ClassInfo in the cache is located at the fixed call site and
\* is determined by the listing javap printed alone, not by the span of the
\* declaration or selector that first asked for the class; every value a
\* later request returns shows that same location.
C16_CallSiteSpan ==
    /\ \A K \in DOMAIN classes :
          /\ classes[K].ci.span = CallSite
          /\ classes[K].ci \in {CachedFrom(Listing(K)), CachedFrom(Listing(Other))}
    /\ Answered => AnsweredClass.ci.span = CallSite
    /\ (CacheMiss /\ Answered) =>
          classes[Requested].ci = CachedFrom(ret.out[1].stdout.text)

\* a reflected declaration, located at its own span, populated the cache
C16_Witness ==
    /\ Built /\ ret.ran # <<>>
    /\ \E j \in 1..Len(ret.log) :
          /\ ret.log[j].ran = 1 /\ ret.log[j].span # CallSite
          /\ ret.log[j].dot_id \notin DOMAIN ret.before
          /\ classes[ret.log[j].dot_id].ci.span = CallSite

-----------------------------------------------------------------------------
(* Totality of reflect_method *)

\* C17: reflect_method is total: for every selector variant and every state
\* of the cache, of CLASSPATH and of javap the call returns a ReflectedMethod
\* or an error value; it never panics.
C17_NeverPanics ==
    ret.op = "reflect_method" => ret.res.kind \in {"ok", "err"}

\* C17 for the selectors that name a class and with CLASSPATH set: what is
\* left of the claim apart from the two panics
C17_TotalOnNamedClasses ==
    (ret.op = "reflect_method" /\ ret.arg.variant # "ClassInfo" /\ ret.cp) =>
        ret.res.kind \in {"ok", "err"}

-----------------------------------------------------------------------------
(* Failures and the cache *)

\* the last call was a reflect that did not return a class
FailedReflect == ret.op = "reflect" /\ ret.res.kind # "ok"

\* the step is a reflect or reflect_method call that asks for class_name
Requests(class_name) ==
    \/ ret'.op = "reflect" /\ ret'.arg.class_name = class_name
    \/ /\ ret'.op = "reflect_method" /\ ret'.arg.variant # "ClassInfo"
       /\ ret'.arg.cn.dot_id = class_name

\* the cache after a failing reflect is the cache before it, without the
\* requested name
FailureNotCached ==
    FailedReflect =>
        /\ classes = ret.before
        /\ ret.arg.class_name \notin DOMAIN classes

\* the request that follows a failing reflect for the same name takes the
\* cache-miss path: it reads CLASSPATH and, with CLASSPATH set, runs javap
MissesAgain ==
    (FailedReflect /\ classpath' = classpath /\ Requests(ret.arg.class_name)) =>
        /\ ret.arg.class_name \notin DOMAIN ret'.before
        /\ ret'.env = 1
        /\ ret'.cp => ret'.ran = <<ret.arg.class_name>> /\ Len(ret'.out) = 1

\* C18: a failing reflect leaves the cache exactly as it was before the
\* call: the requested name is still absent, all entries are unchanged,
\* and the next request for the name takes the cache-miss path again.
C18_FailuresNotCached == []FailureNotCached /\ [][MissesAgain]_vars

\* a reflect failed on an error of javap after an earlier request for the
\* same name had failed too, with another class in the cache
C18_Witness ==
    /\ FailedReflect /\ ret.res.kind = "err"
    /\ ret.ran = <<ret.arg.class_name>>
    /\ javapCalls[ret.arg.class_name] = 2
    /\ ret.arg.class_name \notin DOMAIN classes

\* the last call was a reflect_method that reflected its class and then
\* found no constructor or method, or more than one
ResolutionFailure ==
    /\ ret.op = "reflect_method" /\ ret.arg.variant # "ClassInfo"
    /\ ret.res.kind = "err"
    /\ ret.res.error.message.kind \in
          {"NoConstructorFound", "AmbiguousConstructor",
           "NoMethodFound", "AmbiguousMethod"}

\* what the call recorded in the next state returns when it is answered
\* from class_info
AnswerFrom(class_info) ==
    IF ret'.op = "reflect" THEN Ok(class_info)
    ELSE IF ret'.arg.variant = "ClassName"
    THEN ResolveConstructor(ret'.arg.cn, class_info)
    ELSE ResolveMethod(ret'.arg.cn, ret'.arg.mn, class_info)

\* the class a resolution failure was about is in the cache
StillReflected ==
    ResolutionFailure =>
        /\ Requested \in DOMAIN classes
        /\ Requested \notin DOMAIN ret.before => ret.ran = <<Requested>>

\* a call that asks for a class in the cache runs no javap, keeps the cache
\* and is answered from the cached ClassInfo; no step changes that ClassInfo
AnsweredFromCache ==
    \A X \in DOMAIN classes :
        /\ X \in DOMAIN classes' /\ classes'[X] = classes[X]
        /\ (classpath' = classpath /\ Requests(X)) =>
              /\ ret'.ran = <<>> /\ ret'.out = <<>>
              /\ classes' = classes
              /\ ret'.res = AnswerFrom(classes[X])

\* C19: a resolution failure does not undo reflection: when reflect_method
\* has reflected X and then returns NoConstructorFound, AmbiguousConstructor,
\* NoMethodFound or AmbiguousMethod, X is in the cache, and every later
\* reflect or reflect_method call for X, with any selector, runs javap zero
\* times and resolves against that same ClassInfo.
C19_ResolutionFailureKeepsClass == []StillReflected /\ [][AnsweredFromCache]_vars

\* a resolution failure for a class that an earlier call had reflected,
\* answered from the cache while CLASSPATH was not set
C19_Witness ==
    /\ ResolutionFailure
    /\ Requested \in DOMAIN ret.before
    /\ ret.ran = <<>> /\ ~ret.cp
    /\ classes[Requested] = ret.before[Requested]

====
